---- MODULE Spec2Model ----
(***************************************************************************)
(* Storyboard-to-video orchestration of fal_integration_service:           *)
(* process_storyboard / _process_storyboard_parallel and the helpers it    *)
(* calls (storyboard_pipeline.py).  One run is modelled: Phase 1 (image    *)
(* tasks under a shared asyncio.Semaphore), Phase 2 (video tasks under the *)
(* same semaphore), Phase 3 (sequential download / retime / promote /      *)
(* concatenate in a try ... finally), and asyncio.run's teardown.          *)
(*                                                                         *)
(* Python's None is the empty tuple, an optional value v is <<v>>.         *)
(* Durations are integers in milliseconds.                                 *)
(***************************************************************************)
EXTENDS Integers, Sequences, FiniteSets, TLC

\* ------------------------------------------------------------------ bounds
MaxScenes == 3
MaxConcurrency == 2
MaxTenths == 120
MaxRetries == 3

\* ------------------------------------------------------------- basic values
None == <<>>
Some(v) == <<v>>
Truthy(opt) == opt # None /\ opt[1] # 0

SceneIds == 1 .. MaxScenes

\* Storyboard.scenes: scene ids are unique; scenes.py keeps the order of the
\* input JSON, so the ids come ascending, descending or rotated.
Ascending(n) == [i \in 1 .. n |-> i]
Descending(n) == [i \in 1 .. n |-> n + 1 - i]
Rotated(n) == [i \in 1 .. n |-> IF i = n THEN 1 ELSE i + 1]
Storyboards == UNION {{Ascending(n), Descending(n), Rotated(n)} : n \in 0 .. MaxScenes}

\* (total_duration, per_scene_durations, reference_element).
\* per_scene_durations None and {} behave alike (both falsy) and are the empty
\* map; an entry may be 0.  reference_element stands for "a dict was passed".
NoMap == [id \in {} |-> 0]
DurationInputs ==
    {<<None, NoMap, FALSE>>,
     <<Some(12000), NoMap, FALSE>>,
     <<Some(12000), NoMap, TRUE>>,
     <<None, (1 :> 8000 @@ 2 :> 0), TRUE>>,
     <<Some(12000), (1 :> 0), FALSE>>,
     <<Some(0), NoMap, FALSE>>}

ImageUrl(id) == [kind |-> "image", scene |-> id]
VideoUrl(id) == [kind |-> "video", scene |-> id]
NoUrl == [kind |-> "none", scene |-> 0]

\* Shapes of a raw video response: {"video": {"url": u}}, {"video": u},
\* and a response whose URL sits elsewhere (no usable "video" member).  The
\* responses of a run are the JSON objects the endpoints answer with.
Responses(id) ==
    {[shape |-> "dict", url |-> VideoUrl(id)],
     [shape |-> "str", url |-> VideoUrl(id)],
     [shape |-> "other", url |-> VideoUrl(id)]}
NoResponse == [shape |-> "unset", url |-> NoUrl]

\* Values _extract_video_url may be handed on its own: the shapes above, a
\* nested video object without "url", and values that are no mapping at all
\* (None, a list, a bare string).
RawResponses ==
    UNION {Responses(id) : id \in SceneIds}
        \cup {[shape |-> "dict", url |-> NoUrl]}
        \cup {[shape |-> "not_mapping", url |-> u] : u \in {NoUrl} \cup {VideoUrl(id) : id \in SceneIds}}

Phases == {"img", "vid"}

VARIABLES
    storyboard,            \* sequence of scene ids (Storyboard.scenes)
    fal_concurrency,
    return_clips,
    total_duration,
    per_scene_durations,
    reference_element,     \* whether a reference element (Kling O1) was passed
    pc,                    \* position of _process_storyboard_parallel / asyncio.run
    semaphore,             \* asyncio.Semaphore._value
    waiters,               \* asyncio.Semaphore._waiters, positions, FIFO
    task,                  \* task[p][i]: state of the phase-p task of position i
    inflight,              \* generation calls running in worker threads
    image_results,         \* image_results[i]: image url of position i
    video_results,         \* video_results[i]: raw video response of position i
    video_durations,       \* the `duration` argument of the video task of position i
    progress,              \* the progress dict: counter name -> count
    progress_log,          \* per counter, the values logged ("started %d/%d", "done %d/%d")
    k,                     \* Phase 3 loop position in video_results
    scene_results,
    temp_clips,
    files,                 \* the output directory: path -> content
    exc,                   \* the exception propagating out of the run, or "none"
    result,                \* the returned dict
    download_log,          \* scene ids in the order _download_file was called
    concat_log,            \* clip lists handed to _concatenate_videos
    call,                  \* a helper function applied on its own, with its arguments
    ret,                   \* what that application returned
    video_result,          \* video_pipeline_service main: what process_storyboard returned
    audio_by_scene,        \* scene ids the voice manifest has an audio_path for
    keep_intermediates,    \* args.keep_intermediates
    cli_pc,                \* position of main from "Step 3/4" on
    muxed_paths,           \* names of the muxed per-scene files, as main lists them
    muxed_files,           \* muxed files present in the video output directory
    concat_videos_log,     \* clip lists handed to concat_videos
    retries,               \* tts_with_retry: its arguments and locals
    backoff_sec,
    attempt,
    tts_pc,
    tts_log                \* client.tts calls and asyncio.sleep calls, in order

inputs == <<storyboard, fal_concurrency, return_clips, total_duration,
            per_scene_durations, reference_element>>
tasks == <<semaphore, waiters, task, inflight, image_results, video_results>>
assembly == <<k, scene_results, temp_clips, files, result, download_log, concat_log>>
helper == <<call, ret>>
cli == <<video_result, audio_by_scene, keep_intermediates, cli_pc, muxed_paths,
         muxed_files, concat_videos_log>>
tts == <<retries, backoff_sec, attempt, tts_pc, tts_log>>
outside == <<helper, cli, tts>>
observ == <<progress, progress_log>>
vars == <<inputs, pc, tasks, video_durations, observ, assembly, exc, outside>>

num_scenes == Len(storyboard)
Pos == 1 .. num_scenes

\* ------------------------------------------------------------ initial state
NoFile == [kind |-> "absent", clips |-> <<>>]
EmptyFile == [kind |-> "empty", clips |-> <<>>]
PartialFile == [kind |-> "partial", clips |-> <<>>]
RawClip(id) == [kind |-> "raw", clips |-> <<id>>]
RetimedClip(id) == [kind |-> "retimed", clips |-> <<id>>]

\* tmp.name of the NamedTemporaryFile of position i, tmp.name + ".adj.mp4",
\* scene_<id>.mp4 and output_filename, all in output_root.
TmpPath(i) == <<"tmp", i>>
AdjPath(i) == <<"adj", i>>
NamedPath(id) == <<"scene", id>>
OutputPath == <<"out", 0>>
ScratchPaths == {TmpPath(i) : i \in 1 .. MaxScenes} \cup {AdjPath(i) : i \in 1 .. MaxScenes}
Paths == ScratchPaths \cup {NamedPath(id) : id \in SceneIds} \cup {OutputPath}

\* The `duration` of a video request: the string "5"/"10" for Kling
\* image-to-video, an int for the reference-to-video models.
DurationStr(sec) == [type |-> "str", seconds |-> sec]
DurationInt(sec) == [type |-> "int", seconds |-> sec]
NoDuration == [type |-> "unset", seconds |-> 0]

NoCall == [fn |-> "none"]

NoResult == [returned |-> FALSE, scenes |-> <<>>, output_path |-> None, clip_paths |-> None]

\* asyncio.Semaphore(fal_concurrency)
NewSemaphore(n) == n

\* progress = {"images_started": 0, "images_done": 0, "videos_started": 0,
\* "videos_done": 0}
Counters == {"images_started", "images_done", "videos_started", "videos_done"}
NoProgress == [c \in Counters |-> 0]
NoReports == [c \in Counters |-> <<>>]

\* main of video_pipeline_service and tts_with_retry are not running.
NoVideoResult == [clip_paths |-> None]
CliIdle ==
    /\ video_result = NoVideoResult
    /\ audio_by_scene = {}
    /\ keep_intermediates = FALSE
    /\ cli_pc = "idle"
    /\ muxed_paths = <<>>
    /\ muxed_files = {}
    /\ concat_videos_log = <<>>

TtsIdle ==
    /\ retries = 0
    /\ backoff_sec = 0
    /\ attempt = 0
    /\ tts_pc = "idle"
    /\ tts_log = <<>>

HelperIdle == call = NoCall /\ ret = NoCall

Init ==
    /\ storyboard \in Storyboards
    /\ fal_concurrency \in 1 .. MaxConcurrency
    /\ return_clips \in BOOLEAN
    /\ \E d \in DurationInputs :
           /\ total_duration = d[1]
           /\ per_scene_durations = d[2]
           /\ reference_element = d[3]
    /\ pc = "phase1"
    /\ semaphore = NewSemaphore(fal_concurrency)
    /\ waiters = <<>>
    /\ task = [p \in Phases |-> [i \in Pos |-> "unstarted"]]
    /\ inflight = {}
    /\ image_results = [i \in Pos |-> NoUrl]
    /\ video_results = [i \in Pos |-> NoResponse]
    /\ video_durations = [i \in Pos |-> NoDuration]
    /\ progress = NoProgress
    /\ progress_log = NoReports
    /\ k = 0
    /\ scene_results = <<>>
    /\ temp_clips = <<>>
    /\ files = [f \in Paths |-> NoFile]
    /\ exc = "none"
    /\ result = NoResult
    /\ download_log = <<>>
    /\ concat_log = <<>>
    /\ HelperIdle
    /\ CliIdle
    /\ TtsIdle

\* ------------------------------------------------- duration policy
KlingThreshold == 7500
ReferenceCap == 8

\* _pick_kling_duration: "10" from 7.5 s on, else "5".
\* The threshold taken strictly: 7.5 s itself falls in the 5-second bucket.
PickKlingStrict(target_seconds) ==
    IF target_seconds > KlingThreshold THEN DurationStr(10) ELSE DurationStr(5)

_pick_kling_duration(target_seconds) ==
    IF target_seconds >= KlingThreshold THEN DurationStr(10) ELSE DurationStr(5)

Min(a, b) == IF a <= b THEN a ELSE b
Max(a, b) == IF a >= b THEN a ELSE b

\* math.ceil of a duration given in milliseconds, in whole seconds.
\* Whole seconds by truncation instead of rounding up.
Floor(ms) == ms \div 1000

Ceil(ms) == (ms + 999) \div 1000

\* _pick_reference_duration: min(8, max(1, int(math.ceil(target_seconds))))
_pick_reference_duration(target_seconds) ==
    DurationInt(Min(ReferenceCap, Max(1, Ceil(target_seconds))))

default_per_scene ==
    IF Truthy(total_duration) /\ num_scenes > 0
    THEN Some(total_duration[1] \div num_scenes)
    ELSE None

\* The evenly divided total taking precedence over the scene's map entry.
TargetDurationTotalFirst(id) ==
    IF default_per_scene # None THEN default_per_scene
    ELSE IF id \in DOMAIN per_scene_durations THEN Some(per_scene_durations[id])
    ELSE None

\* target_duration of the Phase 3 loop (383-387):
\* per_scene_durations.get(scene_id) when the map is non-empty, else the default.
TargetDuration(id) ==
    LET entry == IF DOMAIN per_scene_durations # {} /\ id \in DOMAIN per_scene_durations
                 THEN Some(per_scene_durations[id])
                 ELSE None
    IN IF entry = None THEN default_per_scene ELSE entry

\* `per_scene_durations.get(scene_id) or default_per_scene`: an entry of 0
\* falls back to the default like a missing one.
Phase2TargetOrDefault(id) ==
    IF id \in DOMAIN per_scene_durations /\ per_scene_durations[id] # 0
    THEN Some(per_scene_durations[id])
    ELSE default_per_scene

\* target_duration of the Phase 2 loop (325-329), computed on its own there:
\* the map entry when the map is non-empty, the default only when it is None.
Phase2Target(id) ==
    LET entry == IF DOMAIN per_scene_durations # {} /\ id \in DOMAIN per_scene_durations
                 THEN Some(per_scene_durations[id])
                 ELSE None
    IN IF entry = None THEN default_per_scene ELSE entry

\* Every scene asked for the longest clip, whatever its target.
RequestDurationLongest(id) == IF reference_element THEN DurationInt(ReferenceCap) ELSE DurationStr(10)

\* The duration asked of the video model for a scene: picked from the target
\* when there is a truthy one, else 5 (reference) or "5" (Kling).
RequestDuration(id) ==
    IF reference_element
    THEN (IF Truthy(Phase2Target(id))
          THEN _pick_reference_duration(Phase2Target(id)[1])
          ELSE DurationInt(5))
    ELSE (IF Truthy(Phase2Target(id))
          THEN _pick_kling_duration(Phase2Target(id)[1])
          ELSE DurationStr(5))

\* ------------------------------------------------------- progress counters
StartedCounter(p) == IF p = "img" THEN "images_started" ELSE "videos_started"
DoneCounter(p) == IF p = "img" THEN "images_done" ELSE "videos_done"

\* A counter written back from a value read before the other tasks' updates.
IncrementStale(n) == IF n = 0 THEN 1 ELSE n

\* progress[c] += 1
Increment(n) == n + 1

\* The arguments of the log call swapped: the total where the count belongs.
ReportedTotal(c) == num_scenes

\* logging.info("... %d/%d", progress[c], total): the count just written.
Reported(c) == progress'[c]

\* `async with progress_lock:` around the increment and its log line.  The
\* lock is free whenever a task reaches it, the block holding no await, so
\* acquire, increment, log and release are one step of the event loop.
Bump(c) ==
    /\ progress' = [progress EXCEPT ![c] = Increment(@)]
    /\ progress_log' = [progress_log EXCEPT ![c] = Append(@, Reported(c))]

\* ------------------------------------------- Phases 1 and 2: bounded tasks
PhasePc(p) == IF p = "img" THEN "phase1" ELSE "phase2"

\* A semaphore of its own for every scene never blocks a scene's single task.
SemaphorePerScene == FALSE

\* Semaphore.locked() of the one semaphore all tasks share: no permit left,
\* or somebody already waits.
SemaphoreLocked == semaphore = 0 \/ waiters # <<>>

\* Semaphore.release() leaving `async with semaphore`: the permit goes to the
\* first waiter, whose task is woken, or back to the counter.  t is the task
\* table after the releasing task's own update.
Release(t, p) ==
    IF waiters # <<>>
    THEN /\ waiters' = Tail(waiters)
         /\ task' = [t EXCEPT ![p][Head(waiters)] = "woken"]
         /\ semaphore' = semaphore
    ELSE /\ waiters' = waiters
         /\ task' = t
         /\ semaphore' = semaphore + 1

\* First step of the task of position i (gather starts the tasks in scene
\* order): `async with semaphore` either takes a permit and issues the call
\* through asyncio.to_thread, or queues the task.
TaskEnter(p, i) ==
    /\ pc = PhasePc(p)
    /\ task[p][i] = "unstarted"
    /\ \A j \in 1 .. i - 1 : task[p][j] # "unstarted"
    /\ IF SemaphoreLocked
       THEN /\ waiters' = Append(waiters, i)
            /\ task' = [task EXCEPT ![p][i] = "waiting"]
            /\ UNCHANGED <<semaphore, inflight, observ>>
       ELSE /\ semaphore' = semaphore - 1
            /\ Bump(StartedCounter(p))
            /\ task' = [task EXCEPT ![p][i] = "running"]
            /\ inflight' = inflight \cup {<<p, i>>}
            /\ UNCHANGED waiters
    /\ UNCHANGED <<inputs, outside, video_durations, pc, image_results, video_results, assembly, exc>>

\* A woken waiter resumes holding the permit handed to it and issues its call.
TaskResume(p, i) ==
    /\ pc = PhasePc(p)
    /\ task[p][i] = "woken"
    /\ Bump(StartedCounter(p))
    /\ task' = [task EXCEPT ![p][i] = "running"]
    /\ inflight' = inflight \cup {<<p, i>>}
    /\ UNCHANGED <<inputs, outside, video_durations, pc, semaphore, waiters, image_results, video_results,
                   assembly, exc>>

\* Results kept in the order the calls finish: the next free slot.
StoreInCompletionOrder(results, i, value) ==
    LET free == {j \in DOMAIN results : results[j] \in {NoUrl, NoResponse}}
        slot == CHOOSE j \in free : \A h \in free : j <= h
    IN [results EXCEPT ![slot] = value]

\* asyncio.gather returns the results in the order of the awaitables passed,
\* whatever the order they finish in: the result of task i is element i.
GatherResult(results, i, value) == [results EXCEPT ![i] = value]

\* generate_image returns: the task returns (scene, image_url) and releases.
ImageReturns(i) ==
    /\ pc = "phase1"
    /\ task["img"][i] = "running"
    /\ image_results' = GatherResult(image_results, i, ImageUrl(storyboard[i]))
    /\ inflight' = inflight \ {<<"img", i>>}
    /\ Bump(DoneCounter("img"))
    /\ Release([task EXCEPT !["img"][i] = "done"], "img")
    /\ UNCHANGED <<inputs, outside, video_durations, pc, video_results, assembly, exc>>

\* generate_video_from_image / _from_reference returns a raw response.
VideoReturns(i) ==
    /\ pc = "phase2"
    /\ task["vid"][i] = "running"
    /\ \E r \in Responses(storyboard[i]) :
           video_results' = GatherResult(video_results, i, r)
    /\ inflight' = inflight \ {<<"vid", i>>}
    /\ Bump(DoneCounter("vid"))
    /\ Release([task EXCEPT !["vid"][i] = "done"], "vid")
    /\ UNCHANGED <<inputs, outside, video_durations, pc, image_results, assembly, exc>>

\* An acquire/release pair written out by hand, with the release skipped
\* when the call raises.
NoReleaseOnError(t, p) ==
    /\ waiters' = waiters
    /\ task' = t
    /\ semaphore' = semaphore

\* __aexit__ of `async with semaphore` on an exception: it releases as on a
\* normal exit and lets the exception through.
ReleaseOnError(t, p) == Release(t, p)

\* The generation call raises (or times out): the exception leaves
\* `async with semaphore`, which releases, and ends the task.
CallRaises(p, i) ==
    /\ pc = PhasePc(p)
    /\ task[p][i] = "running"
    /\ inflight' = inflight \ {<<p, i>>}
    /\ ReleaseOnError([task EXCEPT ![p][i] = "failed"], p)
    /\ UNCHANGED <<inputs, outside, observ, video_durations, pc, image_results, video_results, assembly, exc>>

\* Going on as soon as one task has returned (a wait for the first result).
FirstDone(p) == \E i \in Pos : task[p][i] = "done"

\* gather's result is ready when every task has returned.
AllDone(p) == \A i \in Pos : task[p][i] = "done"
SomeFailed(p) == \E i \in Pos : task[p][i] = "failed"

\* await asyncio.gather(*image_tasks) returns once every task has returned;
\* the video tasks are then built from image_results.
GatherImagesReturns ==
    /\ pc = "phase1"
    /\ AllDone("img")
    /\ pc' = "phase2"
    /\ video_durations' = [i \in Pos |-> RequestDuration(storyboard[i])]
    /\ UNCHANGED <<inputs, outside, observ, tasks, assembly, exc>>

GatherVideosReturns ==
    /\ pc = "phase2"
    /\ AllDone("vid")
    /\ pc' = "phase3"
    /\ UNCHANGED <<inputs, outside, observ, video_durations, tasks, assembly, exc>>

\* gather without return_exceptions: the first exception of a task is raised
\* in the awaiting coroutine; neither await is inside a try, so it leaves
\* _process_storyboard_parallel.  The other tasks are not cancelled by gather.
GatherRaises(p) ==
    /\ pc = PhasePc(p)
    /\ SomeFailed(p)
    /\ pc' = "teardown"
    /\ exc' = IF p = "img" THEN "generate_image" ELSE "generate_video"
    /\ UNCHANGED <<inputs, outside, observ, video_durations, tasks, assembly>>

\* asyncio.run cancels the tasks still pending: a waiter leaves the queue, a
\* task holding a permit gives it back on leaving `async with`; the call of a
\* cancelled running task goes on in its worker thread.
Cancelled(st) == IF st \in {"unstarted", "waiting", "woken", "running"} THEN "cancelled" ELSE st
HoldsPermit(st) == st \in {"woken", "running"}

FailedPhase == IF exc = "generate_image" THEN "img" ELSE "vid"

CancelAllTasks ==
    /\ pc = "teardown"
    /\ task' = [task EXCEPT ![FailedPhase] = [i \in Pos |-> Cancelled(task[FailedPhase][i])]]
    /\ semaphore' = semaphore + Cardinality({i \in Pos : HoldsPermit(task[FailedPhase][i])})
    /\ waiters' = <<>>
    /\ pc' = "shutdown"
    /\ UNCHANGED <<inputs, outside, observ, video_durations, inflight, image_results, video_results, assembly, exc>>

\* The call of a cancelled task ends in its thread; nobody reads its outcome.
ThreadEnds(p, i) ==
    /\ pc = "shutdown"
    /\ <<p, i>> \in inflight
    /\ inflight' = inflight \ {<<p, i>>}
    /\ UNCHANGED <<inputs, outside, observ, video_durations, pc, semaphore, waiters, task, image_results,
                   video_results, assembly, exc>>

\* asyncio.run joins the executor's threads, then re-raises.
RunRaises ==
    /\ pc = "shutdown"
    /\ inflight = {}
    /\ pc' = "raised"
    /\ UNCHANGED <<inputs, outside, observ, video_durations, tasks, assembly, exc>>

TaskStep ==
    \/ \E p \in Phases, i \in Pos : TaskEnter(p, i)
    \/ \E p \in Phases, i \in Pos : TaskResume(p, i)
    \/ \E i \in Pos : ImageReturns(i)
    \/ \E i \in Pos : VideoReturns(i)
    \/ \E p \in Phases, i \in Pos : CallRaises(p, i)
    \/ GatherImagesReturns
    \/ GatherVideosReturns
    \/ \E p \in Phases : GatherRaises(p)
    \/ CancelAllTasks
    \/ \E p \in Phases, i \in Pos : ThreadEnds(p, i)
    \/ RunRaises

\* ------------------------------------------------ Phase 3: assembly
\* The outcome of _extract_video_url when response.get does not exist.
AttributeError == [kind |-> "AttributeError", scene |-> 0]

\* _extract_video_url: the url of a nested video object or a bare string;
\* response.get("video") comes first and needs a mapping.
_extract_video_url(response) ==
    IF response.shape = "not_mapping" THEN AttributeError
    ELSE IF response.shape = "dict" THEN response.url
    ELSE IF response.shape = "str" THEN response.url
    ELSE NoUrl

SceneResult(i) ==
    [scene |-> storyboard[i],
     image_url |-> image_results[i],
     video_url |-> _extract_video_url(video_results[i])]

\* final_clip always the retimed copy, target or not.
FinalClipAlwaysAdjusted(i) == AdjPath(i)

\* final_clip before promotion: the retimed copy when a target is set.
FinalClip(i) == IF Truthy(TargetDuration(storyboard[i])) THEN AdjPath(i) ELSE TmpPath(i)

\* A loop that downloads whatever the response holds.
HasVideoUrlUnchecked(i) == TRUE

\* `if video_url:`
HasVideoUrl(i) == _extract_video_url(video_results[i]) # NoUrl

\* Head of `for scene, image_url, video_response in video_results`: with a
\* video url the scratch file is created (NamedTemporaryFile, delete=False),
\* without one the scene is logged and its result appended.
SceneBegin ==
    /\ pc = "phase3"
    /\ k < num_scenes
    /\ k' = k + 1
    /\ IF HasVideoUrl(k + 1)
       THEN /\ files' = [files EXCEPT ![TmpPath(k + 1)] = EmptyFile]
            /\ pc' = "download"
            /\ UNCHANGED scene_results
       ELSE /\ scene_results' = Append(scene_results, SceneResult(k + 1))
            /\ pc' = "phase3"
            /\ UNCHANGED files
    /\ UNCHANGED <<inputs, outside, observ, video_durations, tasks, temp_clips, result, download_log, concat_log, exc>>

\* _download_file(video_url, tmp.name): streams to the scratch file or raises.
Download ==
    /\ pc = "download"
    /\ download_log' = Append(download_log, storyboard[k])
    /\ \/ /\ files' = [files EXCEPT ![TmpPath(k)] = RawClip(storyboard[k])]
          /\ pc' = IF Truthy(TargetDuration(storyboard[k])) THEN "adjust" ELSE "promote"
          /\ UNCHANGED exc
       \/ /\ \E left \in {EmptyFile, PartialFile} :
                 files' = [files EXCEPT ![TmpPath(k)] = left]
          /\ pc' = "finally"
          /\ exc' = "download"
    /\ UNCHANGED <<inputs, outside, observ, video_durations, tasks, k, scene_results, temp_clips, result, concat_log>>

\* duration_actual after the probe: no Duration line, 0, or a real length.
ProbedDurations == {None, Some(0), Some(5000)}

\* os.rename(src, dst)
Rename(fs, src, dst) == [fs EXCEPT ![dst] = fs[src], ![src] = NoFile]

\* _adjust_clip_speed(tmp.name, adjusted, target_duration)
AdjustClipSpeed ==
    /\ pc = "adjust"
    /\ \/ \* "Duration: N/A": h, m, s = parts.split(":") raises ValueError
          /\ pc' = "finally"
          /\ exc' = "ValueError"
          /\ UNCHANGED files
       \/ \E duration_actual \in ProbedDurations :
            IF duration_actual = None \/ duration_actual = Some(0)
            THEN /\ files' = Rename(files, TmpPath(k), AdjPath(k))
                 /\ pc' = "unlink"
                 /\ UNCHANGED exc
            ELSE \/ /\ files' = [files EXCEPT ![AdjPath(k)] = RetimedClip(storyboard[k])]
                    /\ pc' = "unlink"
                    /\ UNCHANGED exc
                 \/ \* subprocess.run(cmd, check=True) raises CalledProcessError
                    /\ \E left \in {NoFile, PartialFile} :
                           files' = [files EXCEPT ![AdjPath(k)] = left]
                    /\ pc' = "finally"
                    /\ exc' = "ffmpeg"
    /\ UNCHANGED <<inputs, outside, observ, video_durations, tasks, k, scene_results, temp_clips, result, download_log,
                   concat_log>>

\* os.unlink(tmp.name) after the retiming call.
UnlinkTmp ==
    /\ pc = "unlink"
    /\ IF files[TmpPath(k)] = NoFile
       THEN /\ pc' = "finally"
            /\ exc' = "FileNotFoundError"
            /\ UNCHANGED files
       ELSE /\ files' = [files EXCEPT ![TmpPath(k)] = NoFile]
            /\ pc' = "promote"
            /\ UNCHANGED exc
    /\ UNCHANGED <<inputs, outside, observ, video_durations, tasks, k, scene_results, temp_clips, result, download_log,
                   concat_log>>

\* return_clips: os.replace(final_clip, scene_<id>.mp4); then the clip is
\* appended to temp_clips and the scene's result to scene_results.
PromoteAndAppend ==
    /\ pc = "promote"
    /\ IF return_clips
       THEN /\ files' = Rename(files, FinalClip(k), NamedPath(storyboard[k]))
            /\ temp_clips' = Append(temp_clips, NamedPath(storyboard[k]))
       ELSE /\ temp_clips' = Append(temp_clips, FinalClip(k))
            /\ UNCHANGED files
    /\ scene_results' = Append(scene_results, SceneResult(k))
    /\ pc' = "phase3"
    /\ UNCHANGED <<inputs, outside, observ, video_durations, tasks, k, result, download_log, concat_log, exc>>

LoopEnd ==
    /\ pc = "phase3"
    /\ k = num_scenes
    /\ pc' = "finish"
    /\ UNCHANGED <<inputs, outside, observ, video_durations, tasks, assembly, exc>>

Returned(output_path, clip_paths) ==
    [returned |-> TRUE, scenes |-> scene_results, output_path |-> output_path,
     clip_paths |-> clip_paths]

\* len(temp_clips) == 0: return {"scenes": ..., "output_path": None}
ReturnNoClips ==
    /\ pc = "finish"
    /\ Len(temp_clips) = 0
    /\ result' = Returned(None, None)
    /\ pc' = "finally"
    /\ UNCHANGED <<inputs, outside, observ, video_durations, tasks, k, scene_results, temp_clips, files, download_log,
                   concat_log, exc>>

\* return_clips: return the per-scene clip paths
ReturnClipPaths ==
    /\ pc = "finish"
    /\ Len(temp_clips) # 0
    /\ return_clips
    /\ result' = Returned(None, Some(temp_clips))
    /\ pc' = "finally"
    /\ UNCHANGED <<inputs, outside, observ, video_durations, tasks, k, scene_results, temp_clips, files, download_log,
                   concat_log, exc>>

\* Without the single-clip branch every clip list goes to concatenation.
SingleClipNever == FALSE

\* `if len(temp_clips) == 1`
SingleClip == Len(temp_clips) = 1

\* len(temp_clips) == 1: os.rename(temp_clips[0], output_path); temp_clips.clear()
PromoteSingleClip ==
    /\ pc = "finish"
    /\ Len(temp_clips) # 0
    /\ ~return_clips
    /\ SingleClip
    /\ files' = Rename(files, temp_clips[1], OutputPath)
    /\ temp_clips' = <<>>
    /\ result' = Returned(Some(OutputPath), None)
    /\ pc' = "finally"
    /\ UNCHANGED <<inputs, outside, observ, video_durations, tasks, k, scene_results, download_log, concat_log, exc>>

RECURSIVE ClipsOf(_, _)
ClipsOf(fs, paths) ==
    IF paths = <<>> THEN <<>> ELSE fs[Head(paths)].clips \o ClipsOf(fs, Tail(paths))

\* _concatenate_videos(temp_clips, output_path): joins in list order or raises
\* CalledProcessError.
Concatenate ==
    /\ pc = "finish"
    /\ Len(temp_clips) # 0
    /\ ~return_clips
    /\ ~SingleClip
    /\ concat_log' = Append(concat_log, temp_clips)
    /\ \/ /\ files' = [files EXCEPT ![OutputPath] =
                          [kind |-> "concat", clips |-> ClipsOf(files, temp_clips)]]
          /\ result' = Returned(Some(OutputPath), None)
          /\ UNCHANGED exc
       \/ /\ \E left \in {NoFile, PartialFile} :
                 files' = [files EXCEPT ![OutputPath] = left]
          /\ exc' = "concat"
          /\ UNCHANGED result
    /\ pc' = "finally"
    /\ UNCHANGED <<inputs, outside, observ, video_durations, tasks, k, scene_results, temp_clips, download_log>>

\* A finally block without the `if not return_clips` test.
CleanupTargetsAlways == {temp_clips[j] : j \in 1 .. Len(temp_clips)}

\* The paths the finally block unlinks: every tracked clip, unless the clips
\* are returned to the caller.
CleanupTargets == IF return_clips THEN {} ELSE {temp_clips[j] : j \in 1 .. Len(temp_clips)}

\* A `return` inside the finally block would swallow the exception.
AfterFinallySwallowed == "returned"

\* Leaving the try statement: the pending return or the pending exception.
AfterFinally == IF exc = "none" THEN "returned" ELSE "raised"

\* finally: unlink the tracked clips that exist; then the return or the raise
\* takes effect.
Finally ==
    /\ pc = "finally"
    /\ files' = [f \in Paths |-> IF f \in CleanupTargets THEN NoFile ELSE files[f]]
    /\ pc' = AfterFinally
    /\ UNCHANGED <<inputs, outside, observ, video_durations, tasks, k, scene_results, temp_clips, result, download_log,
                   concat_log, exc>>

AssemblyStep ==
    \/ SceneBegin
    \/ Download
    \/ AdjustClipSpeed
    \/ UnlinkTmp
    \/ PromoteAndAppend
    \/ LoopEnd
    \/ ReturnNoClips
    \/ ReturnClipPaths
    \/ PromoteSingleClip
    \/ Concatenate
    \/ Finally

Next == TaskStep \/ AssemblyStep
Spec == Init /\ [][Next]_vars

\* The event loop runs every task that is ready, and every external call
\* (generation, download, transcoder) eventually returns or raises.
FairSpec == Spec /\ WF_vars(TaskStep) /\ WF_vars(AssemblyStep)

\* ------------------------------------------- helper functions on their own
\* Durations handed to the helpers: 0 s to MaxTenths / 10 s in steps of 0.1 s.
DurationSamples == {100 * j : j \in 0 .. MaxTenths}

\* A ratio of two durations, <<numerator, denominator>>, denominator > 0.
FracLeq(a, b) == a[1] * b[2] <= b[1] * a[2]
AtempoMin == <<1, 2>>
AtempoMax == <<100, 1>>

\* speed_factor = target_seconds / duration_actual: the ratio upside down.
SpeedFactorInverted(duration_actual, target_seconds) == <<target_seconds, duration_actual>>

\* speed_factor = duration_actual / target_seconds
SpeedFactor(duration_actual, target_seconds) == <<duration_actual, target_seconds>>

\* The ffmpeg command _adjust_clip_speed builds once the probe gave a
\* duration: setpts=1/speed_factor on the video, atempo=speed_factor on the
\* audio when ffmpeg accepts the factor, else -an.
RetimeCommand(duration_actual, target_seconds) ==
    LET speed_factor == SpeedFactor(duration_actual, target_seconds) IN
    [speed_factor |-> speed_factor,
     setpts |-> <<speed_factor[2], speed_factor[1]>>,
     audio |-> IF FracLeq(AtempoMin, speed_factor) /\ FracLeq(speed_factor, AtempoMax)
               THEN [option |-> "-filter:a atempo", factor |-> speed_factor]
               ELSE [option |-> "-an", factor |-> <<0, 1>>]]

\* A manifest made from a sorted listing: each distinct path once, in path order.
RECURSIVE SortedListing(_)
SortedListing(clip_paths) ==
    LET S == {clip_paths[j] : j \in 1 .. Len(clip_paths)} IN
    IF S = {} THEN <<>>
    ELSE LET first == CHOOSE x \in S : \A y \in S :
                          x[1] = y[1] => x[2] <= y[2]
             rest == SelectSeq(clip_paths, LAMBDA y : y # first)
         IN <<[directive |-> "file", path |-> first]>> \o SortedListing(rest)

\* The list file _concatenate_videos writes: a line file '<path>' per clip,
\* in the order of clip_paths.
Manifest(clip_paths) ==
    [j \in 1 .. Len(clip_paths) |-> [directive |-> "file", path |-> clip_paths[j]]]

\* The ffmpeg call of _concatenate_videos: concat demuxer over the list file.
ConcatCommand(clip_paths, output_path) ==
    [format |-> "concat", input |-> Manifest(clip_paths), codec |-> "copy",
     output |-> output_path]

RECURSIVE SeqsUpTo(_, _)
SeqsUpTo(S, n) ==
    IF n = 0 THEN {<<>>}
    ELSE LET shorter == SeqsUpTo(S, n - 1) IN
         shorter \cup {Append(q, x) : q \in {r \in shorter : Len(r) = n - 1}, x \in S}

ClipPool == {TmpPath(i) : i \in 1 .. MaxScenes}
ClipLists == {q \in SeqsUpTo(ClipPool, MaxScenes) : Len(q) >= 2}

\* The calls made of the helpers, one per run of HelperSpec.
KlingCalls == {[fn |-> "_pick_kling_duration", args |-> <<t>>] : t \in DurationSamples}
ReferenceCalls == {[fn |-> "_pick_reference_duration", args |-> <<t>>] : t \in DurationSamples}
RetimeCalls ==
    {[fn |-> "_adjust_clip_speed", args |-> <<d, t>>] :
        d \in DurationSamples \ {0}, t \in DurationSamples \ {0}}
ConcatCalls == {[fn |-> "_concatenate_videos", args |-> <<clip_paths>>] : clip_paths \in ClipLists}
ExtractCalls == {[fn |-> "_extract_video_url", args |-> <<response>>] : response \in RawResponses}

\* No run is in progress: a helper is about to be called on its arguments.
\* process_storyboard is not running.
RunIdle ==
    /\ storyboard = <<>>
    /\ fal_concurrency = 1
    /\ return_clips = FALSE
    /\ total_duration = None
    /\ per_scene_durations = NoMap
    /\ reference_element = FALSE
    /\ pc = "helpers"
    /\ semaphore = NewSemaphore(fal_concurrency)
    /\ waiters = <<>>
    /\ task = [p \in Phases |-> <<>>]
    /\ inflight = {}
    /\ image_results = <<>>
    /\ video_results = <<>>
    /\ video_durations = <<>>
    /\ progress = NoProgress
    /\ progress_log = NoReports
    /\ k = 0
    /\ scene_results = <<>>
    /\ temp_clips = <<>>
    /\ files = [f \in Paths |-> NoFile]
    /\ exc = "none"
    /\ result = NoResult
    /\ download_log = <<>>
    /\ concat_log = <<>>

HelperInit ==
    /\ RunIdle
    /\ CliIdle
    /\ TtsIdle
    /\ \/ call \in KlingCalls
       \/ call \in ReferenceCalls
       \/ call \in RetimeCalls
       \/ call \in ConcatCalls
       \/ call \in ExtractCalls
    /\ ret = NoCall

run == <<inputs, pc, tasks, video_durations, observ, assembly, exc>>

PickKling ==
    /\ call.fn = "_pick_kling_duration"
    /\ ret = NoCall
    /\ ret' = _pick_kling_duration(call.args[1])
    /\ UNCHANGED <<run, call, cli, tts>>

PickReference ==
    /\ call.fn = "_pick_reference_duration"
    /\ ret = NoCall
    /\ ret' = _pick_reference_duration(call.args[1])
    /\ UNCHANGED <<run, call, cli, tts>>

BuildRetimeCommand ==
    /\ call.fn = "_adjust_clip_speed"
    /\ ret = NoCall
    /\ ret' = RetimeCommand(call.args[1], call.args[2])
    /\ UNCHANGED <<run, call, cli, tts>>

WriteManifest ==
    /\ call.fn = "_concatenate_videos"
    /\ ret = NoCall
    /\ ret' = ConcatCommand(call.args[1], OutputPath)
    /\ UNCHANGED <<run, call, cli, tts>>

ExtractVideoUrl ==
    /\ call.fn = "_extract_video_url"
    /\ ret = NoCall
    /\ ret' = _extract_video_url(call.args[1])
    /\ UNCHANGED <<run, call, cli, tts>>

HelperNext ==
    \/ PickKling
    \/ PickReference
    \/ BuildRetimeCommand
    \/ WriteManifest
    \/ ExtractVideoUrl
HelperSpec == HelperInit /\ [][HelperNext]_vars

\* ------------------------- video_pipeline_service main, steps 3 and 4
\* File names are sequences of character codes, compared the way Python
\* compares str: code by code, a proper prefix first.
Digit(d) == 48 + d
Underscore == 95

RECURSIVE Digits(_)
Digits(n) == IF n < 10 THEN <<Digit(n)>> ELSE Append(Digits(n \div 10), Digit(n % 10))

RECURSIVE ZeroPad(_, _)
ZeroPad(digits, width) ==
    IF Len(digits) >= width THEN digits ELSE ZeroPad(<<Digit(0)>> \o digits, width)

\* f"{scene_id:03d}": at least three digits.
Format03d(scene_id) == ZeroPad(Digits(scene_id), 3)

\* int("007") = 7
RECURSIVE ParseInt(_)
ParseInt(digits) ==
    IF digits = <<>> THEN 0
    ELSE 10 * ParseInt(SubSeq(digits, 1, Len(digits) - 1)) + (digits[Len(digits)] - Digit(0))

\* A clip path of process_storyboard, scene_<id:03d>.mp4, by the part of its
\* basename between "scene_" and ".mp4".
ClipName(scene_id) == Format03d(scene_id)

\* int(base.split("_")[1].split(".")[0])
SceneIdOf(clip_path) == ParseInt(clip_path)

\* scene_<id:03d>_av.mp4 by the part after "scene_", up to the "_" of "_av.mp4".
MuxedName(scene_id) == Format03d(scene_id) \o <<Underscore>>

RECURSIVE StrLeq(_, _)
StrLeq(a, b) ==
    IF a = <<>> THEN TRUE
    ELSE IF b = <<>> THEN FALSE
    ELSE IF Head(a) # Head(b) THEN Head(a) < Head(b)
    ELSE StrLeq(Tail(a), Tail(b))

\* list.sort() on a list of str.
RECURSIVE SortStrings(_)
SortStrings(names) ==
    IF names = <<>> THEN <<>>
    ELSE LET m == CHOOSE j \in 1 .. Len(names) :
                      \A h \in 1 .. Len(names) : StrLeq(names[j], names[h])
         IN <<names[m]>> \o
                SortStrings(SubSeq(names, 1, m - 1) \o SubSeq(names, m + 1, Len(names)))

\* video_result.get("clip_paths", [])
ClipPathsOf(r) == IF r.clip_paths = None THEN <<>> ELSE r.clip_paths[1]

\* Scene ids of the plans tried: one, two, three and four digits.
SceneIdSamples == {1, 2, 10, 999, 1000}
Distinct(q) == \A a, b \in 1 .. Len(q) : a # b => q[a] # q[b]
IdLists == {q \in SeqsUpTo(SceneIdSamples, MaxScenes) : Len(q) >= 1 /\ Distinct(q)}

\* What process_storyboard(..., return_clips=True) hands back: clip_paths with
\* one scene_<id>.mp4 per clip, or no clip_paths key when no clip was made.
VideoResults ==
    {NoVideoResult} \cup
    {[clip_paths |-> Some([j \in 1 .. Len(q) |-> ClipName(q[j])])] : q \in IdLists}

CliInit ==
    /\ RunIdle
    /\ HelperIdle
    /\ TtsIdle
    /\ video_result \in VideoResults
    /\ audio_by_scene \in {SceneIdSamples, SceneIdSamples \ {2}}
    /\ keep_intermediates \in BOOLEAN
    /\ cli_pc = "mux"
    /\ muxed_paths = <<>>
    /\ muxed_files = {}
    /\ concat_videos_log = <<>>

\* One turn of `for clip_path in clip_paths`: the scene id is read back from
\* the file name, its audio looked up (SystemExit without one), and
\* mux_video_audio writes scene_<id>_av.mp4 or raises RuntimeError.
MuxClip ==
    /\ cli_pc = "mux"
    /\ Len(muxed_paths) < Len(ClipPathsOf(video_result))
    /\ LET clip_path == ClipPathsOf(video_result)[Len(muxed_paths) + 1]
           scene_id == SceneIdOf(clip_path)
       IN IF scene_id \notin audio_by_scene
          THEN /\ cli_pc' = "SystemExit"
               /\ UNCHANGED <<muxed_paths, muxed_files>>
          ELSE \/ /\ muxed_paths' = Append(muxed_paths, MuxedName(scene_id))
                  /\ muxed_files' = muxed_files \cup {MuxedName(scene_id)}
                  /\ UNCHANGED cli_pc
               \/ /\ cli_pc' = "RuntimeError"
                  /\ UNCHANGED <<muxed_paths, muxed_files>>
    /\ UNCHANGED <<video_result, audio_by_scene, keep_intermediates, concat_videos_log>>
    /\ UNCHANGED <<run, helper, tts>>

\* muxed_paths.sort(); concat_videos(muxed_paths, final_video_path), which
\* raises RuntimeError when ffmpeg exits non-zero.
SortAndConcat ==
    /\ cli_pc = "mux"
    /\ Len(muxed_paths) = Len(ClipPathsOf(video_result))
    /\ muxed_paths' = SortStrings(muxed_paths)
    /\ concat_videos_log' = Append(concat_videos_log, muxed_paths')
    /\ cli_pc' \in {"cleanup", "RuntimeError"}
    /\ UNCHANGED <<video_result, audio_by_scene, keep_intermediates, muxed_files>>
    /\ UNCHANGED <<run, helper, tts>>

\* `if not args.keep_intermediates:` unlink every muxed file that exists;
\* the final manifest is written and main ends.
Cleanup ==
    /\ cli_pc = "cleanup"
    /\ muxed_files' = IF keep_intermediates THEN muxed_files
                      ELSE muxed_files \ {muxed_paths[j] : j \in 1 .. Len(muxed_paths)}
    /\ cli_pc' = "done"
    /\ UNCHANGED <<video_result, audio_by_scene, keep_intermediates, muxed_paths,
                   concat_videos_log>>
    /\ UNCHANGED <<run, helper, tts>>

CliNext == MuxClip \/ SortAndConcat \/ Cleanup
CliSpec == CliInit /\ [][CliNext]_vars

\* ------------------------------------------- voice_gen_service tts_with_retry
\* backoff_sec values tried, in milliseconds.
BackoffSamples == {0, 250, 1000, 1500}

TtsEvent(ev, ms) == [ev |-> ev, ms |-> ms]

RetryInit ==
    /\ RunIdle
    /\ HelperIdle
    /\ CliIdle
    /\ retries \in 0 .. MaxRetries
    /\ backoff_sec \in BackoffSamples
    /\ attempt = 0
    /\ tts_pc = "call"
    /\ tts_log = <<>>

\* Giving up one failure early.
GivesUpEarly(n) == n >= retries

\* `if attempt > retries: raise`
GivesUp(n) == n > retries

\* sleep_for = backoff_sec * (2 ** (attempt - 1))
SleepFor(n) == backoff_sec * 2 ^ (n - 1)

\* `return await client.tts(...)`: the call succeeds and its result is returned.
TtsReturns ==
    /\ tts_pc = "call"
    /\ tts_log' = Append(tts_log, TtsEvent("tts_ok", 0))
    /\ tts_pc' = "returned"
    /\ UNCHANGED <<retries, backoff_sec, attempt>>
    /\ UNCHANGED <<run, helper, cli>>

\* client.tts raises an Exception: attempt += 1, then re-raise or go to sleep.
TtsRaises ==
    /\ tts_pc = "call"
    /\ tts_log' = Append(tts_log, TtsEvent("tts_failed", 0))
    /\ attempt' = attempt + 1
    /\ tts_pc' = IF GivesUp(attempt') THEN "raised" ELSE "sleep"
    /\ UNCHANGED <<retries, backoff_sec>>
    /\ UNCHANGED <<run, helper, cli>>

\* client.tts ends with a BaseException that is no Exception (cancellation,
\* KeyboardInterrupt): `except Exception` lets it through at once.
TtsInterrupted ==
    /\ tts_pc = "call"
    /\ tts_log' = Append(tts_log, TtsEvent("tts_interrupted", 0))
    /\ tts_pc' = "interrupted"
    /\ UNCHANGED <<retries, backoff_sec, attempt>>
    /\ UNCHANGED <<run, helper, cli>>

\* await asyncio.sleep(sleep_for), then the loop calls again.
TtsSleeps ==
    /\ tts_pc = "sleep"
    /\ tts_log' = Append(tts_log, TtsEvent("sleep", SleepFor(attempt)))
    /\ tts_pc' = "call"
    /\ UNCHANGED <<retries, backoff_sec, attempt>>
    /\ UNCHANGED <<run, helper, cli>>

RetryNext == TtsReturns \/ TtsRaises \/ TtsInterrupted \/ TtsSleeps
RetrySpec == RetryInit /\ [][RetryNext]_vars

\* ------------------- the sequential process_storyboard (src/fal-integration)
\* One scene after the other: image, video, download, retime, promote.  With
\* every external call succeeding, what it asks of the endpoints and what it
\* returns are functions of its arguments and of the endpoints' answers:
\* generate_image answers ImageUrl of the scene, generate_video_from_image
\* answers for position i what it answers the parallel run, video_results[i].
SeqKlingThreshold == 7500
Seq_pick_kling_duration(target_seconds) ==
    IF target_seconds >= SeqKlingThreshold THEN DurationStr(10) ELSE DurationStr(5)

Seq_per_scene_duration ==
    IF Truthy(total_duration) /\ num_scenes > 0
    THEN Some(total_duration[1] \div num_scenes)
    ELSE None

SeqTargetDuration(id) ==
    LET entry == IF DOMAIN per_scene_durations # {} /\ id \in DOMAIN per_scene_durations
                 THEN Some(per_scene_durations[id])
                 ELSE None
    IN IF entry = None THEN Seq_per_scene_duration ELSE entry

\* kling_dur = _pick_kling_duration(target_duration) if target_duration else "5"
SeqKlingDur(id) ==
    IF Truthy(SeqTargetDuration(id))
    THEN Seq_pick_kling_duration(SeqTargetDuration(id)[1])
    ELSE DurationStr(5)

SeqImageRequests == {[scene |-> storyboard[i]] : i \in Pos}
SeqVideoRequests ==
    {[scene |-> storyboard[i], image_url |-> ImageUrl(storyboard[i]),
      duration |-> SeqKlingDur(storyboard[i])] : i \in Pos}

SeqSceneResult(i) ==
    [scene |-> storyboard[i],
     image_url |-> ImageUrl(storyboard[i]),
     video_url |-> _extract_video_url(video_results[i])]

\* final_clip of a scene with a video url, as the caller may see it: the
\* scene_<id>.mp4 it is promoted to under return_clips.
RECURSIVE SeqClips(_)
SeqClips(n) ==
    IF n = 0 THEN <<>>
    ELSE IF SeqSceneResult(n).video_url # NoUrl
         THEN Append(SeqClips(n - 1), NamedPath(storyboard[n]))
         ELSE SeqClips(n - 1)

\* The dict the sequential process_storyboard returns.
SeqResult ==
    LET scenes == [i \in Pos |-> SeqSceneResult(i)] IN
    IF Len(SeqClips(num_scenes)) = 0
    THEN [returned |-> TRUE, scenes |-> scenes, output_path |-> None, clip_paths |-> None]
    ELSE IF return_clips
    THEN [returned |-> TRUE, scenes |-> scenes, output_path |-> None,
          clip_paths |-> Some(SeqClips(num_scenes))]
    ELSE [returned |-> TRUE, scenes |-> scenes, output_path |-> Some(OutputPath),
          clip_paths |-> None]

\* ------------------------------------------------------------------ claims
Finished(p, i) == task[p][i] \in {"done", "failed", "cancelled"}
Phase3Pcs == {"phase3", "download", "adjust", "unlink", "promote", "finish", "finally"}
AssemblyErrors == {"download", "ffmpeg", "ValueError", "FileNotFoundError", "concat"}
UrlPositions == {i \in Pos : _extract_video_url(video_results[i]) # NoUrl}
IsAscending(ids) == \A a, b \in 1 .. Len(ids) : a < b => ids[a] < ids[b]
Existing == {f \in Paths : files[f] # NoFile}

\* C1: in every reachable state the number of image and video generation
\* calls issued and not yet returned or raised is at most fal_concurrency,
\* across all scenes and both phases.
C1_OutstandingCallsBounded == Cardinality(inflight) <= fal_concurrency

\* C1 witness: the budget is used up by calls in flight while another scene's
\* task waits for a permit.
C1_Witness ==
    /\ Cardinality(inflight) = fal_concurrency
    /\ waiters # <<>>
    /\ pc = "phase2"

\* C2: when exactly one scene's image call has raised and every other
\* scene's image call has succeeded, the run does not raise: it goes on and
\* returns a result in which every other scene has an image url and the
\* failing scene has none.
C2_ImageFailureIsolated ==
    (\E f \in Pos : /\ task["img"][f] = "failed"
                    /\ Pos \ {f} # {}
                    /\ \A j \in Pos \ {f} : task["img"][j] = "done")
    => /\ exc = "none"
       /\ pc \notin {"teardown", "shutdown", "raised"}
       /\ pc = "returned" =>
             \A j \in Pos : (result.scenes[j].image_url = NoUrl) <=> (task["img"][j] = "failed")

\* C3: after a run that raised in Phase 3, no scratch file of the run (a
\* downloaded temp file or its retimed copy) is left in the output directory.
C3_NoScratchLeftAfterFailure ==
    (pc = "raised" /\ exc \in AssemblyErrors) => Existing \cap ScratchPaths = {}

\* C4: Phase 3 downloads the scenes in ascending scene_id order, and the
\* clip list handed to concatenation or returned as clip_paths is in
\* ascending scene_id order, whatever the order of the storyboard.
C4_AssemblyInSceneIdOrder ==
    /\ IsAscending(download_log)
    /\ \A c \in 1 .. Len(concat_log) : IsAscending(ClipsOf(files, concat_log[c]))
    /\ (pc = "returned" /\ result.clip_paths # None) =>
           IsAscending([j \in 1 .. Len(result.clip_paths[1]) |-> result.clip_paths[1][j][2]])

\* C5: no video task enters (takes a permit, issues its call) before every
\* image task of the run has finished, and no download, transcoder run or
\* file of Phase 3 exists before every video task has finished.
C5_PhasesDoNotOverlap ==
    /\ (\E i \in Pos : task["vid"][i] # "unstarted" \/ <<"vid", i>> \in inflight)
           => \A j \in Pos : Finished("img", j) /\ <<"img", j>> \notin inflight
    /\ (pc \in Phase3Pcs \/ k > 0 \/ download_log # <<>> \/ concat_log # <<>> \/ Existing # {})
           => \A j \in Pos : Finished("vid", j) /\ <<"vid", j>> \notin inflight

\* C5 witness: a clip is being downloaded in a run of several scenes whose
\* tasks had to queue for permits.
C5_Witness ==
    /\ pc = "download"
    /\ num_scenes > fal_concurrency
    /\ k = num_scenes

\* C6: when the probe yields no duration or zero and the clip was moved
\* unchanged to the retiming destination, the run does not fail because of
\* it: no exception is raised and Phase 3 goes on with that clip.
C6_ProbeMissFailsOpen ==
    (k > 0 /\ files[AdjPath(k)] = RawClip(storyboard[k])) => exc = "none"

\* C7: when a scene's video call raises, no sibling task is cancelled, the
\* run does not raise and goes on to Phase 3.
C7_VideoFailureIsolated ==
    (\E f \in Pos : task["vid"][f] = "failed")
    => /\ \A j \in Pos : task["vid"][j] # "cancelled"
       /\ exc # "generate_video"
       /\ pc \notin {"teardown", "shutdown", "raised"}

\* C8: if no scene's video response yields a usable url (the empty
\* storyboard included), Phase 3 creates no file, downloads nothing and never
\* calls the concatenation, the run does not raise, and the returned dict
\* has one scene entry per scene in order and output_path None.
C8_NoUrlNoOutput ==
    (AllDone("vid") /\ UrlPositions = {}) =>
        /\ Existing = {}
        /\ download_log = <<>>
        /\ concat_log = <<>>
        /\ exc = "none"
        /\ pc # "raised"
        /\ pc = "returned" =>
              /\ result.returned
              /\ Len(result.scenes) = num_scenes
              /\ \A i \in Pos : /\ result.scenes[i].scene = storyboard[i]
                                /\ result.scenes[i].video_url = NoUrl
              /\ result.output_path = None
              /\ result.clip_paths = None

\* C8 witness: a run of several scenes, none with a usable url, has returned.
C8_Witness ==
    /\ pc = "returned"
    /\ num_scenes >= 2
    /\ UrlPositions = {}

\* C9: if exactly one scene produced a clip and per-scene clips are not
\* requested, the returned output_path is the output file, that file holds
\* the single clip (retimed when the scene has a target), the concatenation
\* was never called, and the output file survives the final cleanup.
C9_SingleClipBecomesOutput ==
    (pc = "returned" /\ ~return_clips /\ Cardinality(UrlPositions) = 1) =>
        \A i \in UrlPositions :
            /\ result.output_path = Some(OutputPath)
            /\ files[OutputPath] =
                  (IF Truthy(TargetDuration(storyboard[i]))
                   THEN RetimedClip(storyboard[i]) ELSE RawClip(storyboard[i]))
            /\ concat_log = <<>>
            /\ Existing = {OutputPath}

\* C9 witness: such a run of several scenes has returned, the clip retimed.
C9_Witness ==
    /\ pc = "returned"
    /\ ~return_clips
    /\ num_scenes >= 2
    /\ Cardinality(UrlPositions) = 1
    /\ files[OutputPath].kind = "retimed"

\* C10: with return_clips and at least one clip, the result has output_path
\* None and clip_paths holding exactly one scene_<id>.mp4 per scene that had
\* a video url; each of these files exists on return and holds that scene's
\* clip, and the concatenation was never called.
C10_ReturnedClipsKept ==
    (pc = "returned" /\ return_clips /\ UrlPositions # {}) =>
        /\ result.output_path = None
        /\ result.clip_paths # None
        /\ LET clips == result.clip_paths[1] IN
             /\ Len(clips) = Cardinality(UrlPositions)
             /\ {clips[j] : j \in 1 .. Len(clips)} = {NamedPath(storyboard[i]) : i \in UrlPositions}
             /\ \A j \in 1 .. Len(clips) : /\ files[clips[j]] # NoFile
                                           /\ files[clips[j]].clips = <<clips[j][2]>>
        /\ concat_log = <<>>

\* C10 witness: a run returning the clips of two or more scenes, one scene
\* having had no url.
C10_Witness ==
    /\ pc = "returned"
    /\ return_clips
    /\ Cardinality(UrlPositions) >= 2
    /\ Cardinality(UrlPositions) < num_scenes

TrackedClips == {temp_clips[j] : j \in 1 .. Len(temp_clips)}
PositionsUpTo(n) == {i \in UrlPositions : i <= n}

\* C11: at the end of every run, returned or raised, every temporary clip the
\* run created has either been promoted to a caller-visible path, where it
\* still exists, or been deleted: no scratch file of a processed scene is
\* left, and every path the result names exists.
C11_ClipPromotedOrDeleted ==
    pc \in {"returned", "raised"} =>
        /\ \A i \in PositionsUpTo(k) :
               files[TmpPath(i)] = NoFile /\ files[AdjPath(i)] = NoFile
        /\ result.output_path # None => files[OutputPath] # NoFile
        /\ result.clip_paths # None =>
               \A j \in 1 .. Len(result.clip_paths[1]) : files[result.clip_paths[1][j]] # NoFile

\* C12: a processed scene whose response has no usable video url has no
\* scratch file, no download and no clip in the clip list; its result, with
\* video_url None, is in the scenes list at its position; the loop goes on
\* to the next scene and no exception comes from that scene.
C12_MissingUrlSkipsScene ==
    \A i \in Pos :
        (i <= k /\ _extract_video_url(video_results[i]) = NoUrl) =>
            /\ files[TmpPath(i)] = NoFile
            /\ files[AdjPath(i)] = NoFile
            /\ files[NamedPath(storyboard[i])] = NoFile
            /\ \A j \in 1 .. Len(download_log) : download_log[j] # storyboard[i]
            /\ TrackedClips \cap {TmpPath(i), AdjPath(i), NamedPath(storyboard[i])} = {}
            /\ Len(scene_results) >= i
            /\ scene_results[i] =
                  [scene |-> storyboard[i], image_url |-> ImageUrl(storyboard[i]),
                   video_url |-> NoUrl]
            /\ i = k => /\ pc \in {"phase3", "finish", "finally", "returned", "raised"}
                        /\ exc \in {"none", "concat"}

\* C12 witness: a returned run in which a scene without url was followed by
\* a scene whose clip was produced.
C12_Witness ==
    /\ pc = "returned"
    /\ \E i, j \in Pos : /\ i < j
                         /\ i \notin UrlPositions
                         /\ j \in UrlPositions
                         /\ files[NamedPath(storyboard[j])] # NoFile

\* C13: once the download, the retiming transcoder or the concatenation has
\* raised, the run is on its way out with that exception: no result dict is
\* returned, and no scene after the failing one is downloaded, retimed or
\* given a scratch file.
C13_AssemblyErrorIsFatal ==
    exc \in {"download", "ffmpeg", "concat"} =>
        /\ pc \in {"finally", "raised"}
        /\ ~result.returned
        /\ Len(download_log) = Cardinality(PositionsUpTo(k))
        /\ \A j \in Pos : j > k => files[TmpPath(j)] = NoFile /\ files[AdjPath(j)] = NoFile
        /\ Len(scene_results) <= k

\* C13 witness: the run has raised on a failed retiming while a later scene
\* with a video url was still to be processed.
C13_Witness ==
    /\ pc = "raised"
    /\ exc = "ffmpeg"
    /\ \E j \in UrlPositions : j > k

\* C14: _pick_kling_duration returns the 10-second bucket exactly when the
\* target is at least 7.5 s (7.5 s included), and the 5-second bucket for
\* every other target.
C14_KlingBucketAtThreshold ==
    (call.fn = "_pick_kling_duration" /\ ret # NoCall) =>
        /\ ret \in {DurationStr(5), DurationStr(10)}
        /\ (ret = DurationStr(10)) <=> (10 * call.args[1] >= 75 * 1000)

C14_Witness ==
    /\ call.fn = "_pick_kling_duration"
    /\ call.args[1] = 7500
    /\ ret = DurationStr(10)

\* C15: _pick_reference_duration returns min(8, max(1, ceil(t))): the least
\* whole number of seconds not below the target, clamped into 1 .. 8, as an
\* integer.
C15_ReferenceDurationClamped ==
    (call.fn = "_pick_reference_duration" /\ ret # NoCall) =>
        LET t == call.args[1]
            ceil == CHOOSE n \in 0 .. (t \div 1000 + 1) :
                        n * 1000 >= t /\ (n - 1) * 1000 < t
        IN /\ ret.type = "int"
           /\ ret.seconds \in 1 .. 8
           /\ ret.seconds = (IF ceil < 1 THEN 1 ELSE IF ceil > 8 THEN 8 ELSE ceil)

C15_Witness ==
    /\ call.fn = "_pick_reference_duration"
    /\ call.args[1] = 2100
    /\ ret = DurationInt(3)

C19_ManifestFollowsInputOrder ==
    (call.fn = "_concatenate_videos" /\ ret # NoCall) =>
        LET clip_paths == call.args[1] IN
        /\ ret.format = "concat"
        /\ Len(ret.input) = Len(clip_paths)
        /\ \A j \in 1 .. Len(clip_paths) :
               ret.input[j] = [directive |-> "file", path |-> clip_paths[j]]

C19_Witness ==
    /\ call.fn = "_concatenate_videos"
    /\ call.args[1] = <<TmpPath(2), TmpPath(1), TmpPath(2)>>
    /\ ret # NoCall
    /\ Len(ret.input) = 3

NoTarget(i) == storyboard[i] \notin DOMAIN per_scene_durations /\ total_duration = None

\* C16: a scene with no entry in the duration map, in a run with no total
\* duration, is requested with the native 5 seconds, is never handed to
\* _adjust_clip_speed, and its clip is the downloaded file itself: no
\* retimed copy of it ever exists or is tracked.
C16_NoTargetNoRetiming ==
    \A i \in Pos : NoTarget(i) =>
        /\ video_durations[i] # NoDuration => video_durations[i].seconds = 5
        /\ ~(pc \in {"adjust", "unlink"} /\ k = i)
        /\ files[AdjPath(i)] = NoFile
        /\ AdjPath(i) \notin TrackedClips
        /\ (pc = "promote" /\ k = i) => files[TmpPath(i)] = RawClip(storyboard[i])
        /\ files[NamedPath(storyboard[i])] \in {NoFile, RawClip(storyboard[i])}

C16_Witness ==
    \E i \in Pos :
        /\ NoTarget(i)
        /\ per_scene_durations # NoMap
        /\ video_durations[i].seconds = 5
        /\ pc = "phase3"
        /\ k = i
        /\ TmpPath(i) \in TrackedClips
        /\ files[TmpPath(i)] = RawClip(storyboard[i])

\* The target the statement gives a scene: its map entry, else the evenly
\* divided total whenever a total was passed, else none.
StatedTarget(i) ==
    IF storyboard[i] \in DOMAIN per_scene_durations
    THEN Some(per_scene_durations[storyboard[i]])
    ELSE IF total_duration # None THEN Some(total_duration[1] \div num_scenes)
    ELSE None

\* C17 as stated: the target of a scene is its duration-map entry when
\* present, else total_duration / num_scenes if a total was given, else none.
C17_TargetFromMapThenTotal ==
    \A i \in Pos : TargetDuration(storyboard[i]) = StatedTarget(i)

\* The same with a total of zero counted as no total.
AmendedTarget(i) ==
    IF storyboard[i] \in DOMAIN per_scene_durations
    THEN Some(per_scene_durations[storyboard[i]])
    ELSE IF total_duration # None /\ total_duration[1] # 0
         THEN Some(total_duration[1] \div num_scenes)
    ELSE None

\* C17 amended: the target of a scene is its duration-map entry when present,
\* else total_duration / num_scenes if a non-zero total was given, else none;
\* a scene is retimed only when that target is set and non-zero.
C17_TargetFromMapThenNonZeroTotal ==
    \A i \in Pos :
        /\ TargetDuration(storyboard[i]) = AmendedTarget(i)
        /\ (pc \in {"adjust", "unlink"} /\ k = i) => Truthy(AmendedTarget(i))
        /\ video_durations[i] # NoDuration =>
               (video_durations[i].seconds # 5 => Truthy(AmendedTarget(i)))

C17_Witness ==
    /\ pc = "adjust"
    /\ per_scene_durations # NoMap
    /\ storyboard[k] \notin DOMAIN per_scene_durations
    /\ total_duration = Some(12000)
    /\ TargetDuration(storyboard[k]) = Some(12000 \div num_scenes)

AllFinished(p) == \A i \in Pos : Finished(p, i)
Quiet(p) == \A i \in Pos : Finished(p, i) \/ task[p][i] = "unstarted"

\* C20: whenever every task of a phase has finished, returned or raised, and
\* no task of the other phase is under way, every permit is free again and
\* nobody waits; and while a phase runs, a queued task always has a task
\* ahead of it that holds a permit, a failed one having given its permit up.
C20_PermitsReturnedAfterPhase ==
    /\ \A p \in Phases :
           (num_scenes > 0 /\ AllFinished(p) /\ \A q \in Phases : Quiet(q)) =>
               semaphore = fal_concurrency /\ waiters = <<>>
    /\ \A p \in Phases :
           (pc = PhasePc(p) /\ waiters # <<>>) =>
               \E i \in Pos : HoldsPermit(task[p][i])

C20_Witness ==
    /\ pc = "raised"
    /\ num_scenes > fal_concurrency
    /\ AllFinished("vid")
    /\ task["vid"][1] = "failed"
    /\ \E i \in Pos : i > fal_concurrency /\ task["vid"][i] = "done"
    /\ semaphore = fal_concurrency

PassedStart(p) == {i \in Pos : task[p][i] \in {"running", "done", "failed"}}
PassedCompletion(p) == {i \in Pos : task[p][i] = "done"}
CancelledTasks(p) == {i \in Pos : task[p][i] = "cancelled"}
FailureFree == pc \in Phase3Pcs \cup {"returned"} \/ (pc = "raised" /\ exc \in AssemblyErrors)

\* C21: no increment of a progress counter is lost: every done counter equals
\* the number of tasks of its phase whose call has returned, every started
\* counter the number of tasks that took a permit (a task cancelled at
\* teardown may or may not have taken one), and once both phases are through
\* without a failure all four counters equal the number of scenes.
C21_NoLostIncrement ==
    /\ \A p \in Phases :
           /\ progress[DoneCounter(p)] = Cardinality(PassedCompletion(p))
           /\ progress[StartedCounter(p)] >= Cardinality(PassedStart(p))
           /\ progress[StartedCounter(p)] <=
                  Cardinality(PassedStart(p)) + Cardinality(CancelledTasks(p))
    /\ FailureFree => \A c \in Counters : progress[c] = num_scenes

C21_Witness ==
    /\ pc = "returned"
    /\ num_scenes = MaxScenes
    /\ fal_concurrency < num_scenes
    /\ \A c \in Counters : progress[c] = num_scenes

ReportsAscending ==
    \A c \in Counters : \A j \in 2 .. Len(progress_log[c]) :
        progress_log[c][j] = progress_log[c][j - 1] + 1

ImageReportsFirst ==
    (\E c \in {"images_started", "images_done"} : progress_log'[c] # progress_log[c])
        => \A c \in {"videos_started", "videos_done"} : progress_log'[c] = <<>>

\* C22: the values logged for each counter go up by exactly one from one
\* report to the next, with no value twice and none out of order, and no
\* image counter is reported once a video counter has been.
C22_ReportsIncreaseByOne == []ReportsAscending /\ [][ImageReportsFirst]_vars

C22_Witness ==
    /\ \A c \in Counters : Len(progress_log[c]) = MaxScenes
    /\ progress_log["videos_done"][MaxScenes] = MaxScenes
    /\ fal_concurrency < MaxScenes

\* C23: whatever order the tasks of a phase finish in, the image url kept for
\* a position, and handed to its video task, is the one of that position's
\* own scene, the video response kept for it is that scene's, every scene
\* result pairs a scene with its own image url and video url, and the results
\* come in the order the scenes were submitted.
C23_ResultsPairedInSubmissionOrder ==
    /\ \A i \in Pos :
           /\ image_results[i] \in {NoUrl, ImageUrl(storyboard[i])}
           /\ video_results[i] # NoResponse => video_results[i] \in Responses(storyboard[i])
           /\ task["vid"][i] # "unstarted" => image_results[i] = ImageUrl(storyboard[i])
    /\ Len(scene_results) <= num_scenes
    /\ \A j \in 1 .. Len(scene_results) :
           /\ scene_results[j].scene = storyboard[j]
           /\ scene_results[j].image_url = ImageUrl(storyboard[j])
           /\ scene_results[j].video_url \in {NoUrl, VideoUrl(storyboard[j])}
    /\ result.returned => result.scenes = [j \in Pos |-> SceneResult(j)]

C23_Witness ==
    /\ pc = "phase2"
    /\ num_scenes = MaxScenes
    /\ storyboard[1] > storyboard[num_scenes]
    /\ task["vid"][1] = "running"
    /\ task["vid"][num_scenes] = "done"
    /\ video_results[num_scenes] \in Responses(storyboard[num_scenes])
    /\ video_results[1] = NoResponse

\* C24: for every raw response, _extract_video_url returns the url of a
\* nested video object or of a bare string under "video", returns the no-url
\* outcome for every other value, a value that is no mapping included, and
\* never raises.
C24_ExtractNeverRaises ==
    (call.fn = "_extract_video_url" /\ ret # NoCall) =>
        LET response == call.args[1] IN
        /\ ret # AttributeError
        /\ ret = (IF response.shape \in {"dict", "str"} THEN response.url ELSE NoUrl)

ConcatenatedIds(names) == [j \in 1 .. Len(names) |-> ParseInt(SubSeq(names[j], 1, Len(names[j]) - 1))]

\* C25: main hands the muxed clips to concat_videos in ascending numeric
\* scene_id order, for every set of scene ids and whatever order
\* process_storyboard returned the clips in.
C25_FinalOrderByNumericSceneId ==
    \A j \in 1 .. Len(concat_videos_log) : IsAscending(ConcatenatedIds(concat_videos_log[j]))

\* C26: when the run result carries no clips, main does not call
\* concat_videos: it is never handed an empty clip list.
C26_NoConcatWithoutClips ==
    \A j \in 1 .. Len(concat_videos_log) : concat_videos_log[j] # <<>>

TtsCalls == {j \in 1 .. Len(tts_log) : tts_log[j].ev # "sleep"}
TtsFailures == {j \in 1 .. Len(tts_log) : tts_log[j].ev = "tts_failed"}

\* C30: tts_with_retry calls the endpoint at most retries + 1 times; nothing
\* follows the first successful call, whose result is returned; calls and
\* sleeps alternate, the k-th sleep lasting backoff_sec * 2^(k-1); the
\* (retries + 1)-th failure in a row is re-raised with no sleep after it, so
\* with retries = 0 the first failure is raised at once.
C30_AtMostRetriesPlusOneCalls ==
    /\ Cardinality(TtsCalls) <= retries + 1
    /\ \A j \in 1 .. Len(tts_log) :
           /\ tts_log[j].ev = "tts_ok" => j = Len(tts_log) /\ tts_pc = "returned"
           /\ j % 2 = 1 => tts_log[j].ev # "sleep"
           /\ j % 2 = 0 => tts_log[j] = TtsEvent("sleep", backoff_sec * 2 ^ (j \div 2 - 1))
           /\ (tts_log[j].ev = "sleep" \/ j < Len(tts_log)) => tts_log[j].ev \in {"sleep", "tts_failed"}
    /\ tts_pc = "raised" <=>
           /\ Cardinality(TtsFailures) = retries + 1
           /\ Len(tts_log) = 2 * retries + 1
    /\ tts_pc = "returned" => tts_log[Len(tts_log)].ev = "tts_ok"
    /\ tts_pc = "sleep" => Cardinality(TtsFailures) <= retries

C30_Witness ==
    /\ tts_pc = "raised"
    /\ retries = 2
    /\ backoff_sec = 1000
    /\ tts_log = <<TtsEvent("tts_failed", 0), TtsEvent("sleep", 1000),
                   TtsEvent("tts_failed", 0), TtsEvent("sleep", 2000),
                   TtsEvent("tts_failed", 0)>>

ZeroEntry(i) ==
    storyboard[i] \in DOMAIN per_scene_durations /\ per_scene_durations[storyboard[i]] = 0

\* C28: for every scene the target Phase 2 picks the request duration from is
\* the target Phase 3 retimes to; _adjust_clip_speed is never called with a
\* target of zero; and a duration-map entry of 0 means no target: the native
\* 5 seconds are requested and the clip is not retimed, even when a total
\* duration would give a default.
C28_SameTargetNeverZero ==
    \A i \in Pos :
        /\ Phase2Target(storyboard[i]) = TargetDuration(storyboard[i])
        /\ (pc \in {"adjust", "unlink"} /\ k = i) =>
               /\ TargetDuration(storyboard[i]) # None
               /\ TargetDuration(storyboard[i])[1] > 0
               /\ video_durations[i] \in
                      {_pick_kling_duration(TargetDuration(storyboard[i])[1]),
                       _pick_reference_duration(TargetDuration(storyboard[i])[1])}
        /\ ZeroEntry(i) =>
               /\ TargetDuration(storyboard[i]) = Some(0)
               /\ video_durations[i] # NoDuration => video_durations[i].seconds = 5
               /\ ~(pc \in {"adjust", "unlink"} /\ k = i)
               /\ files[AdjPath(i)] = NoFile

C28_Witness ==
    /\ pc = "promote"
    /\ ZeroEntry(k)
    /\ total_duration = Some(12000)
    /\ video_durations[k] = DurationStr(5)
    /\ files[TmpPath(k)] = RawClip(storyboard[k])
    /\ files[AdjPath(k)] = NoFile

\* The requests of the parallel run: a task that passed its start point has
\* issued its call, the video call with the image url and duration it was
\* built with.
ImageRequests == {[scene |-> storyboard[i]] : i \in PassedStart("img")}
VideoRequests ==
    {[scene |-> storyboard[i], image_url |-> image_results[i],
      duration |-> video_durations[i]] : i \in PassedStart("vid")}

\* C29: without a reference element, a parallel run in which every external
\* call succeeded has issued the image and video requests the sequential
\* process_storyboard issues, with the same duration per scene, and returns
\* the same scenes, output_path and clip_paths, for every fal_concurrency and
\* every interleaving of the tasks.
C29_ParallelRefinesSequential ==
    (pc = "returned" /\ ~reference_element) =>
        /\ ImageRequests = SeqImageRequests
        /\ VideoRequests = SeqVideoRequests
        /\ result = SeqResult

C29_Witness ==
    /\ pc = "returned"
    /\ ~reference_element
    /\ num_scenes = MaxScenes
    /\ fal_concurrency = MaxConcurrency
    /\ total_duration = Some(12000)
    /\ result.output_path = Some(OutputPath)
    /\ Len(concat_log) = 1
    /\ VideoRequests = SeqVideoRequests

Terminated == pc \in {"returned", "raised"}

\* C27: when every external call eventually returns or raises, every scene
\* task, image and video, eventually takes a permit (passes its start
\* point), and the run eventually ends by returning or raising.
C27_EveryTaskGetsPermitAndRunEnds ==
    <>(Terminated /\ \A p \in Phases : progress[StartedCounter(p)] = num_scenes)

====
